---- MODULE Spec2Model ----
(***************************************************************************)
(* bcoin-relaylib: the Relay (lib/relay.js), its RelayIndexer              *)
(* (lib/indexer.js) and the records they persist (lib/records.js,          *)
(* lib/request.js), as a state machine.                                    *)
(*                                                                         *)
(* JavaScript runs one callback at a time, so an async method is a         *)
(* sequence of synchronous runs separated by its awaits.  Every task of    *)
(* the model is one call of a public method; task[t].pc is the await the   *)
(* call is suspended at, and one action is one synchronous run.  A store   *)
(* read (db.has, db.get) takes its value when it is issued.                *)
(*                                                                         *)
(* Request ids are the uint32 numbers RelayIndexer.putRequest asserts      *)
(* (indexer.js:217-218).  The 20-byte address and the value of a Request   *)
(* are opaque payload that no modelled operation reads; they are left out  *)
(* of the Request row.  SHA256 is taken to be collision free, so a         *)
(* ScriptRecord is keyed by its script.                                    *)
(***************************************************************************)
EXTENDS Integers, Sequences, FiniteSets, TLC

\* ---------------------------------------------------------------- bounds
NumIds == 3
NumOutpoints == 1
NumScripts == 1
NumTasks == 2
MaxTime == 1
MaxOps == 3
MaxSeqOps == 4
MaxTimedOps == 2
MaxIns == 1
MaxOuts == 2
MaxTxs == 1
MaxHeight == 1
MaxChain == 2
MaxApiOps == 4
NumSockets == 2
MaxWsOps == 2
MaxBlockTxs == 2
MaxBlockOps == 3
MaxReorgOps == 3
MaxHttpOps == 3

Ids == 1..NumIds
Outpoints == 1..NumOutpoints
Scripts == 1..NumScripts
Tasks == 1..NumTasks
Heights == 1..MaxHeight
Sockets == 1..NumSockets

\* new Outpoint(): the null outpoint (zero hash, index 0xffffffff)
NullOutpoint == 0
\* new Script(): the empty script
EmptyScript == 0

\* The Request objects a caller can pass (Request.fromOptions).
Requests ==
  [id : Ids, spends : {NullOutpoint} \cup Outpoints,
   pays : {EmptyScript} \cup Scripts, timestamp : {0}]

\* ---------------------------------------------------------------- layout
\* layout.i / layout.o / layout.s
KeyI(id) == <<"i", id>>
KeyO(op) == <<"o", op>>
KeyS(sc) == <<"s", sc>>
\* layout.V of the base indexer layout: the db version, in the same store
KeyV == <<"V", 0>>
Keys ==
  {KeyI(id) : id \in Ids} \cup {KeyO(op) : op \in Outpoints}
    \cup {KeyS(sc) : sc \in Scripts} \cup {KeyV}

\* What the membership predicate `has` is asked about: prevout.toRaw() of an
\* input and script.toRaw() of an output.
ItemO(op) == <<"o", op>>
ItemS(sc) == <<"s", sc>>
Items ==
  {ItemO(op) : op \in {NullOutpoint} \cup Outpoints}
    \cup {ItemS(sc) : sc \in {EmptyScript} \cup Scripts}

NoVal == [kind |-> "none"]

\* the value under layout.V once the store has been opened
Version == [kind |-> "version"]

\* Request.encode() as stored under layout.i (the id is carried by the key)
RequestRow(r) ==
  [kind |-> "req", spends |-> r.spends, pays |-> r.pays,
   timestamp |-> r.timestamp]

\* OutpointRecord.fromOptions({prevout, requests}): nextout stays the zero
\* outpoint; the prevout is carried by the key.
OutpointRecord(reqs) == [kind |-> "orec", nextout |-> 0, requests |-> reqs]

\* ScriptRecord.fromOptions({script, requests})
ScriptRecord(sc, reqs) == [kind |-> "srec", script |-> sc, requests |-> reqs]

\* sha256.digest(script), taken to be collision free
Sha256(sc) == sc

\* A ScriptRecord object: ScriptRecord.fromOptions({script, requests}) sets
\* hash = sha256.digest(script)
ScriptObject(sc, reqs) == [hash |-> Sha256(sc), script |-> sc, requests |-> reqs]

\* ScriptRecord.write: the requests and the script; the hash is not written
EncodeScript(obj) == ScriptRecord(obj.script, obj.requests)

\* mutant of DecodeScript: the hash of the key not taken over
DecodeScriptNoHash(raw, hash) ==
  [hash |-> 0, script |-> raw.script, requests |-> raw.requests]

\* ScriptRecord.read(br, hash): the requests, the script, and the hash of
\* the key
DecodeScript(raw, hash) ==
  [hash |-> hash, script |-> raw.script, requests |-> raw.requests]

\* An OutpointRecord object: OutpointRecord.fromOptions({prevout, requests})
OutpointObject(op, reqs) == [prevout |-> op, nextout |-> 0, requests |-> reqs]

\* OutpointRecord.write: nextout and the requests; prevout is not written
EncodeOutpoint(obj) ==
  [kind |-> "orec", nextout |-> obj.nextout, requests |-> obj.requests]

\* OutpointRecord.read(br, outpoint): nextout, the requests, and the prevout
\* of the key
DecodeOutpoint(raw, op) ==
  [prevout |-> op, nextout |-> raw.nextout, requests |-> raw.requests]

\* ScriptRecord.add / OutpointRecord.add: this.requests.push(id)
RecordAdd(rec, id) == [rec EXCEPT !.requests = Append(@, id)]

Range(s) == {s[i] : i \in 1..Len(s)}

\* ------------------------------------------------------------- the store
Put(k, v) == [type |-> "put", key |-> k, val |-> v]
Del(k) == [type |-> "del", key |-> k, val |-> NoVal]

ApplyOp(d, o) == [d EXCEPT ![o.key] = o.val]

RECURSIVE ApplyOps(_, _)
\* batch.write(): the buffered operations, in order, in one atomic write
ApplyOps(d, ops) ==
  IF ops = <<>> THEN d ELSE ApplyOps(ApplyOp(d, Head(ops)), Tail(ops))

NoBatch == [open |-> FALSE, ops |-> <<>>]

\* Indexer.start(): this.batch = this.db.batch()
StartBatch == [open |-> TRUE, ops |-> <<>>]

\* Indexer.put / Indexer.del: this.batch.put(key, value)
BatchAdd(b, o) == [b EXCEPT !.ops = Append(@, o)]

\* ------------------------------------------------------------- the blocks
SeqsUpTo(S, n) == UNION {[1..m -> S] : m \in 1..n}

\* A transaction: the previous outpoints of its inputs and the scripts of its
\* outputs, in order.  Its txid is its position in the block.
Txs ==
  [ins : SeqsUpTo({NullOutpoint} \cup Outpoints, MaxIns),
   outs : SeqsUpTo(Scripts, MaxOuts)]
Blocks == SeqsUpTo(Txs, MaxTxs)
\* blocks with several transactions
LongBlocks == SeqsUpTo(Txs, MaxBlockTxs)

\* The membership predicate handed to indexBlock: this.has, i.e. the Relay's
\* (item) => this.filter.test(item), or the caller's own, as the BufferSet
\* `items` of PUT /relay/request.
HasFilter == [filter |-> TRUE, items |-> {}]
HasItems(S) == [filter |-> FALSE, items |-> S]
RequestItems(r) ==
  (IF r.spends # NullOutpoint THEN {ItemO(r.spends)} ELSE {})
    \cup (IF r.pays # EmptyScript THEN {ItemS(r.pays)} ELSE {})
HasChoices ==
  {HasFilter}
    \cup {HasItems(RequestItems(r)) : r \in {q \in Requests : RequestItems(q) # {}}}

\* valid.buf('pays') and valid.uint('height') of a body without the field
NoPays == 0
NoHeight == 0

\* The JSON bodies of PUT /relay/request (id, address and value well formed):
\* spends.hash and spends.index of the outpoint may each be given or not.
Bodies ==
  [id : Ids, outpoint : Outpoints, hash : BOOLEAN, index : BOOLEAN,
   pays : {NoPays} \cup Scripts, height : {NoHeight} \cup Heights]

\* mutant of IsValidRequestInput: the check left out
IsValidRequestInputAlways(body) == TRUE

\* isValidRequestInput({hash, index, pays}): isSpendsValid || isPaysValid
IsValidRequestInput(body) ==
  (body.hash /\ body.index) \/ body.pays # NoPays

\* Request.fromOptions({id, address, value, spends: {hash, index}, pays}):
\* spends is taken only with both its hash and its index
HttpRequest(body) ==
  [id |-> body.id,
   spends |-> IF body.hash /\ body.index THEN body.outpoint ELSE NullOutpoint,
   pays |-> IF body.pays # NoPays THEN body.pays ELSE EmptyScript,
   timestamp |-> 0]

\* ---------------------------------------------------------------- state
VARIABLES
  db,         \* the store: key -> value bytes (decoded), NoVal when absent
  batch,      \* RelayIndexer.batch, the one batch handle of the indexer
  filter,     \* Relay.filter: the items added to the Bloom filter
  writeLock,  \* Relay.writeLock: 0 when free, else the task holding it
  now,        \* util.now(), seconds
  relay,      \* "constructed", "opened" by Relay.open(), "serving" calls
  openError,  \* did the last Relay.open() reject
  task,       \* the calls in flight, one per task
  calls,      \* history: the addRequest calls that have settled
  ops,        \* history: how many calls were started
  chain,      \* the node's main chain: the connected blocks, by height
  log,        \* history: the last scan of the chain that completed
  sockets     \* the websockets of the HTTP server: the channels each one is
              \* in, the events sent to it, and (history) its last call

vars ==
  <<db, batch, filter, writeLock, now, relay, openError, task, calls, ops,
    chain, log, sockets>>

NoReq == [id |-> 0, spends |-> NullOutpoint, pays |-> EmptyScript, timestamp |-> 0]

IdleTask ==
  [pc |-> "idle", op |-> "none", ret |-> "none", req |-> NoReq,
   flag |-> FALSE, rec |-> NoVal, keys |-> {},
   blk |-> <<>>, has |-> HasFilter, height |-> 0, ti |-> 0, k |-> 0,
   sat |-> <<>>, events |-> <<>>, pre |-> {},
   snap |-> <<>>, o |-> NoVal, s |-> NoVal, status |-> 0, body |-> NoVal,
   scan |-> FALSE, from |-> 0, arg |-> NoVal]

\* no scan of the chain has completed yet
NoLog == [kind |-> "none"]

\* a websocket the server has accepted: in no channel, nothing sent to it;
\* last, key and auth are history: its last watch call, the key of its last
\* 'auth' call and how that call ended
NewSocket ==
  [channels |-> {}, inbox |-> <<>>, last |-> "none", key |-> "none",
   auth |-> "none"]

\* new Relay(options): a fresh filter, lock and indexer; the store is on disk
Init ==
  /\ db = [k \in Keys |-> NoVal]
  /\ batch = NoBatch
  /\ filter = {}
  /\ writeLock = 0
  /\ now = 0
  /\ relay = "constructed"
  /\ openError = FALSE
  /\ task = [t \in Tasks |-> IdleTask]
  /\ calls = {}
  /\ ops = 0
  /\ chain = <<>>
  /\ log = NoLog
  /\ sockets = [s \in Sockets |-> NewSocket]

\* BloomFilter.test(item), without false positives
FilterTest(item) == item \in filter

\* what a call finds when it is made
Snap == [db |-> db, batch |-> batch, filter |-> filter]

CanStart(t) == relay \in {"opened", "serving"} /\ task[t].pc = "idle"

Call(r, ok) == [id |-> r.id, spends |-> r.spends, pays |-> r.pays, ok |-> ok]

\* the call settles; its result stays visible until Return
Settle(tk, ret) == [tk EXCEPT !.pc = "done", !.ret = ret]

\* -------------------------------------------------- RelayIndexer.addRequest
\* In the operators of a call, tk is the task's record and b the batch handle
\* as the current run has left them so far.

\* An error thrown inside a route handler: the server answers 500.
HttpError(tk) == IF tk.op = "httpPut" THEN [tk EXCEPT !.status = 500] ELSE tk

\* PUT /relay/request after await this.relay.addRequest(request): when the
\* body has a height, items holds the outpoint key and the script of the
\* returned records and this.relay.scan(height, item => items.has(item)) is
\* started without being awaited; then res.json(200, ...).  A direct caller
\* of addRequest just gets the triple.
HttpRespond(tk) ==
  IF tk.op # "httpPut"
    THEN Settle(tk, "ok")
    ELSE IF tk.body.height # NoHeight
           THEN [tk EXCEPT !.status = 200, !.pc = "sc_next", !.scan = TRUE,
                           !.from = tk.body.height,
                           !.height = tk.body.height - 1,
                           !.has = HasItems(
                             (IF tk.o # NoVal THEN {ItemO(tk.req.spends)} ELSE {})
                               \cup (IF tk.s # NoVal THEN {ItemS(tk.s.script)} ELSE {}))]
           ELSE Settle([tk EXCEPT !.status = 200], "ok")

\* An addRequest call rejects: nothing catches the error in
\* RelayIndexer.addRequest or in the Relay.addRequest that is in force, so
\* the batch handle keeps whatever the call buffered.
AddRequestThrow(t, tk, b) ==
  /\ task' = [task EXCEPT ![t] = Settle(HttpError(tk), "err")]
  /\ calls' = calls \cup {Call(tk.req, FALSE)}
  /\ batch' = b
  /\ UNCHANGED db

\* return [r, orecord, srecord]: the Request as stamped, and the records that
\* addRequest built with requests: [r.id]; what putOutpointRecord and
\* putScriptRecord return is dropped.  A part that was not built is undefined.
AddRequestResult(tk) ==
  [tk EXCEPT
     !.o = IF tk.req.spends # NullOutpoint
             THEN OutpointRecord(<<tk.req.id>>) ELSE NoVal,
     !.s = IF tk.req.pays # EmptyScript
             THEN ScriptRecord(tk.req.pays, <<tk.req.id>>) ELSE NoVal]

\* await this.commit(); return [r, orecord, srecord].  Indexer.commit() writes
\* this.batch and clears the handle; with no batch open, this.batch.write()
\* is a TypeError.
AddRequestCommit(t, tk, b) ==
  IF ~b.open
    THEN AddRequestThrow(t, tk, b)
    ELSE /\ db' = ApplyOps(db, b.ops)
         /\ batch' = NoBatch
         /\ task' = [task EXCEPT ![t] = HttpRespond(AddRequestResult(tk))]
         /\ calls' = calls \cup {Call(tk.req, TRUE)}

\* if (!request.pays.raw.equals(Buffer.alloc(0))): build the ScriptRecord and
\* enter putScriptRecord, up to its await this.hasScriptRecord(srecord)
AddRequestFromPays(t, tk, b) ==
  IF tk.req.pays # EmptyScript
    THEN /\ task' = [task EXCEPT ![t] =
                       [tk EXCEPT !.pc = "ar_s_has",
                                  !.flag = db[KeyS(tk.req.pays)] # NoVal]]
         /\ batch' = b
         /\ UNCHANGED <<db, calls>>
    ELSE AddRequestCommit(t, tk, b)

\* mutant of AddRequestFromSpends: the outpoint branch left out
AddRequestFromSpendsSkipped(t, tk, b) == AddRequestFromPays(t, tk, b)

\* if (!request.spends.isNull()): build the OutpointRecord and enter
\* putOutpointRecord, up to its await this.hasOutpointRecord(orecord)
AddRequestFromSpends(t, tk, b) ==
  IF tk.req.spends # NullOutpoint
    THEN /\ task' = [task EXCEPT ![t] =
                       [tk EXCEPT !.pc = "ar_o_has",
                                  !.flag = db[KeyO(tk.req.spends)] # NoVal]]
         /\ batch' = b
         /\ UNCHANGED <<db, calls>>
    ELSE AddRequestFromPays(t, tk, b)

\* else await this.db.put(key, value): the put of a record with no batch
\* open; the call waits for the store at pc
DirectPut(t, tk, pc, k, v) ==
  /\ db' = ApplyOp(db, Put(k, v))
  /\ task' = [task EXCEPT ![t] = [tk EXCEPT !.pc = pc]]
  /\ UNCHANGED <<batch, calls>>

\* RelayIndexer.putRequest: request.timestamp = util.now()
Stamp(r) == [r EXCEPT !.timestamp = now]

\* Relay.addRequest -> RelayIndexer.addRequest: if (!this.batch) this.start();
\* putRequest buffers the row (the batch is open), and the call goes on to
\* the outpoint.
AddRequest(t, r) ==
  /\ CanStart(t)
  /\ AddRequestFromSpends(t,
       [IdleTask EXCEPT !.op = "addRequest", !.req = Stamp(r), !.snap = Snap],
       BatchAdd(IF batch.open THEN batch ELSE StartBatch,
                Put(KeyI(r.id), RequestRow(Stamp(r)))))
  /\ ops' = ops + 1
  /\ relay' = "serving"
  /\ UNCHANGED <<filter, writeLock, now, openError, chain, log, sockets>>

\* putOutpointRecord resumed after hasOutpointRecord.  When the record exists
\* it calls this.getOutpointRecord({hash, index}): one object argument where
\* (hash, index) is expected, so layout.o.encode(hash, index) throws.
\* Otherwise the fresh record is put, and with it buffered the call goes on
\* to the script.
AddRequestPutOutpoint(t) ==
  /\ task[t].pc = "ar_o_has"
  /\ LET tk == [task[t] EXCEPT !.flag = FALSE]
         k == KeyO(tk.req.spends)
         v == OutpointRecord(<<tk.req.id>>)
     IN IF task[t].flag
          THEN AddRequestThrow(t, tk, batch)
          ELSE IF batch.open
                 THEN AddRequestFromPays(t, tk, BatchAdd(batch, Put(k, v)))
                 ELSE DirectPut(t, tk, "ar_o_put", k, v)
  /\ UNCHANGED <<filter, writeLock, now, relay, openError, ops, chain, log, sockets>>

\* resumed after await this.db.put(key, orecord.encode())
AddRequestAfterOutpoint(t) ==
  /\ task[t].pc = "ar_o_put"
  /\ AddRequestFromPays(t, task[t], batch)
  /\ UNCHANGED <<filter, writeLock, now, relay, openError, ops, chain, log, sockets>>

\* putScriptRecord resumed after hasScriptRecord: either
\* await this.getScriptRecord(srecord.script), or the put of the fresh
\* record, and with it buffered the commit
AddRequestHasScript(t) ==
  /\ task[t].pc = "ar_s_has"
  /\ LET tk == [task[t] EXCEPT !.flag = FALSE]
         k == KeyS(tk.req.pays)
         v == ScriptRecord(tk.req.pays, <<tk.req.id>>)
     IN IF task[t].flag
          THEN /\ task' = [task EXCEPT ![t] =
                             [tk EXCEPT !.pc = "ar_s_get", !.rec = db[k]]]
               /\ UNCHANGED <<db, batch, calls>>
          ELSE IF batch.open
                 THEN AddRequestCommit(t, tk, BatchAdd(batch, Put(k, v)))
                 ELSE DirectPut(t, tk, "ar_s_put", k, v)
  /\ UNCHANGED <<filter, writeLock, now, relay, openError, ops, chain, log, sockets>>

\* putScriptRecord resumed after getScriptRecord: r.add(request.id) and the
\* put of r; getScriptRecord returned null when the row is gone, and r.add is
\* then a TypeError.
AddRequestPutScript(t) ==
  /\ task[t].pc = "ar_s_get"
  /\ LET tk == [task[t] EXCEPT !.rec = NoVal]
         k == KeyS(tk.req.pays)
     IN IF task[t].rec = NoVal
          THEN AddRequestThrow(t, tk, batch)
          ELSE IF batch.open
                 THEN AddRequestCommit(t, tk,
                        BatchAdd(batch, Put(k, RecordAdd(task[t].rec, tk.req.id))))
                 ELSE DirectPut(t, tk, "ar_s_put", k,
                                RecordAdd(task[t].rec, tk.req.id))
  /\ UNCHANGED <<filter, writeLock, now, relay, openError, ops, chain, log, sockets>>

\* resumed after await this.db.put(key, srecord.encode())
AddRequestAfterScript(t) ==
  /\ task[t].pc = "ar_s_put"
  /\ AddRequestCommit(t, task[t], batch)
  /\ UNCHANGED <<filter, writeLock, now, relay, openError, ops, chain, log, sockets>>

\* ------------------------------------------------------------ Relay.open
\* Relay.open(): await this.indexer.open(); await this.watch().
\* indexer.open() is the base Indexer's open: it opens the store and leaves
\* the db version under layout.V.  watch() starts with
\* this.indexer.scriptIterator(), which RelayIndexer does not define (it
\* defines scriptRecordIterator), and its callbacks use ScriptRecord and
\* Outpoint, which relay.js does not import: watch() throws before the first
\* this.filter.add, and open() rejects.
Open ==
  /\ relay = "constructed"
  /\ relay' = "opened"
  /\ openError' = TRUE
  /\ db' = [db EXCEPT ![KeyV] = Version]
  /\ UNCHANGED <<batch, filter, writeLock, now, task, calls, ops, chain, log, sockets>>

\* Relay.close() and a new Relay on the same store: the filter, the lock, the
\* batch handle and the calls in flight are the process's; the store stays.
Restart ==
  /\ relay \in {"opened", "serving"}
  /\ \A t \in Tasks : task[t].pc = "idle"
  /\ relay' = "constructed"
  /\ openError' = FALSE
  /\ batch' = NoBatch
  /\ filter' = {}
  /\ writeLock' = 0
  /\ task' = [t \in Tasks |-> IdleTask]
  /\ ops' = ops + 1
  /\ UNCHANGED <<db, now, calls, chain, log, sockets>>

\* the clock moves on
Tick ==
  /\ now < MaxTime
  /\ now' = now + 1
  /\ UNCHANGED <<db, batch, filter, writeLock, relay, openError, task, calls, ops,
               chain, log, sockets>>

\* --------------------------------------------------------- Relay.writeLock
\* if (this.batch) this.put(key, value); else this.db.put(key, value)
PutOrBuffer(k, v) ==
  IF batch.open
    THEN batch' = BatchAdd(batch, Put(k, v)) /\ UNCHANGED db
    ELSE db' = ApplyOp(db, Put(k, v)) /\ UNCHANGED batch

\* if (this.batch) this.del(key); else this.db.del(key)
DelOrBuffer(k) ==
  IF batch.open
    THEN batch' = BatchAdd(batch, Del(k)) /\ UNCHANGED db
    ELSE db' = ApplyOp(db, Del(k)) /\ UNCHANGED batch

\* Relay.putRequest(request): the call, up to
\* const unlock = await this.writeLock.lock()
PutRequest(t, r) ==
  /\ CanStart(t)
  /\ task' = [task EXCEPT ![t] =
                [IdleTask EXCEPT !.pc = "pr_wait", !.op = "putRequest", !.req = r,
                                 !.snap = Snap]]
  /\ ops' = ops + 1
  /\ relay' = "serving"
  /\ UNCHANGED <<db, batch, filter, writeLock, now, openError, calls, chain, log, sockets>>

\* Relay.putRequest with the lock: Relay._putRequest ->
\* RelayIndexer.putRequest, which has no await, and unlock() in the finally
PutRequestLocked(t) ==
  /\ task[t].pc = "pr_wait"
  /\ writeLock = 0
  /\ PutOrBuffer(KeyI(task[t].req.id), RequestRow(Stamp(task[t].req)))
  /\ task' = [task EXCEPT ![t] = Settle([task[t] EXCEPT !.req = Stamp(@)], "ok")]
  /\ UNCHANGED <<filter, writeLock, now, relay, openError, calls, ops, chain, log, sockets>>

\* Relay.deleteRequest(id): the call, up to the lock
DeleteRequest(t, id) ==
  /\ CanStart(t)
  /\ task' = [task EXCEPT ![t] =
                [IdleTask EXCEPT !.pc = "dr_wait", !.op = "deleteRequest",
                                 !.req = [NoReq EXCEPT !.id = id],
                                 !.snap = Snap]]
  /\ ops' = ops + 1
  /\ relay' = "serving"
  /\ UNCHANGED <<db, batch, filter, writeLock, now, openError, calls, chain, log, sockets>>

\* mutant of DeleteRequestLocked: the records that list the id deleted with
\* the row
DeleteRequestLockedReconciling(t) ==
  /\ task[t].pc = "dr_wait"
  /\ writeLock = 0
  /\ db' = [k \in Keys |->
             IF \/ k = KeyI(task[t].req.id)
                \/ /\ k[1] \in {"s", "o"} /\ db[k] # NoVal
                   /\ task[t].req.id \in Range(db[k].requests)
               THEN NoVal ELSE db[k]]
  /\ task' = [task EXCEPT ![t] = Settle(task[t], "ok")]
  /\ UNCHANGED <<batch, filter, writeLock, now, relay, openError, calls, ops,
               chain, log, sockets>>

\* Relay.deleteRequest with the lock: RelayIndexer.deleteRequest, which has no
\* await, and unlock()
DeleteRequestLocked(t) ==
  /\ task[t].pc = "dr_wait"
  /\ writeLock = 0
  /\ DelOrBuffer(KeyI(task[t].req.id))
  /\ task' = [task EXCEPT ![t] = Settle(task[t], "ok")]
  /\ UNCHANGED <<filter, writeLock, now, relay, openError, calls, ops, chain, log, sockets>>

\* Relay.wipe(): the call, up to the lock
Wipe(t) ==
  /\ CanStart(t)
  /\ task' = [task EXCEPT ![t] =
                [IdleTask EXCEPT !.pc = "wp_wait", !.op = "wipe"]]
  /\ ops' = ops + 1
  /\ relay' = "serving"
  /\ UNCHANGED <<db, batch, filter, writeLock, now, openError, calls, chain, log, sockets>>

\* mutant of WipedPrefixes: the case for 'i' left out of the switch
WipedPrefixesNoRequests == {"s", "o"}

\* mutant of WipedPrefixes: every key of the store is deleted
WipedPrefixesAll == {"s", "o", "i", "V"}

\* The keys RelayIndexer.wipe deletes: those under 's', 'o' and 'i'
WipedPrefixes == {"s", "o", "i"}

\* Relay.wipe with the lock -> RelayIndexer.wipe: await iter.each(...)
\* collects b.del(key) for every key of the store under the three prefixes
WipeScan(t) ==
  /\ task[t].pc = "wp_wait"
  /\ writeLock = 0
  /\ writeLock' = t
  /\ task' = [task EXCEPT ![t].pc = "wp_scanned",
                          ![t].keys = {k \in Keys : db[k] # NoVal
                                                     /\ k[1] \in WipedPrefixes}]
  /\ UNCHANGED <<db, batch, filter, now, relay, openError, calls, ops, chain, log, sockets>>

\* RelayIndexer.wipe: return b.write(), then unlock()
WipeWrite(t) ==
  /\ task[t].pc = "wp_scanned"
  /\ db' = [k \in Keys |-> IF k \in task[t].keys THEN NoVal ELSE db[k]]
  /\ writeLock' = 0
  /\ task' = [task EXCEPT ![t] = Settle(task[t], "ok")]
  /\ calls' = {}
  /\ UNCHANGED <<batch, filter, now, relay, openError, ops, chain, log, sockets>>

\* ------------------------------------------------------------ HTTP sockets
\* server.channel(name): the sockets that joined the channel
Channel(name) == {s \in Sockets : name \in sockets[s].channels}

\* mutant of InitSockets: the events sent to every authenticated socket
InitSocketsToAuth(data) ==
  sockets' = [s \in Sockets |->
                IF s \in Channel("auth")
                  THEN [sockets[s] EXCEPT !.inbox = @ \o data]
                  ELSE sockets[s]]

\* HTTP.initSockets: this.relay.on('requests satisfied', (data) =>
\* this.to('relay', 'relay requests satisfied', data)), for the events of one
\* synchronous run, in order
InitSockets(data) ==
  sockets' = [s \in Sockets |->
                IF s \in Channel("relay")
                  THEN [sockets[s] EXCEPT !.inbox = @ \o data]
                  ELSE sockets[s]]

\* the events task t emits in this step
NewEvents(t) ==
  IF task'[t].pc = "idle"
    THEN <<>>
    ELSE SubSeq(task'[t].events, Len(task[t].events) + 1, Len(task'[t].events))

\* the keys a client can send with 'auth' while auth is enabled: the API
\* key, another key, and a key of more than 255 characters
ApiKeys == {"valid", "wrong", "long"}

\* mutant of Auth: the key is not compared
AuthAnyKey(s, key) ==
  /\ sockets' = [sockets EXCEPT
                   ![s].channels = @ \cup {"auth"},
                   ![s].key = key,
                   ![s].auth = IF "auth" \in sockets[s].channels
                                 THEN "rejected" ELSE "ok"]
  /\ UNCHANGED <<db, batch, filter, writeLock, now, relay, openError, task,
               calls, ops, chain, log>>

\* the 'auth' hook: it throws 'Already authed.' for a socket in 'auth' and
\* 'Invalid API key.' for a key that is too long or has another hash; else
\* the socket joins 'auth' and handleAuth adds the 'watch relay' and
\* 'unwatch relay' hooks
Auth(s, key) ==
  /\ sockets' = [sockets EXCEPT
                   ![s].channels =
                     IF "auth" \notin @ /\ key = "valid" THEN @ \cup {"auth"} ELSE @,
                   ![s].key = key,
                   ![s].auth =
                     IF "auth" \notin sockets[s].channels /\ key = "valid"
                       THEN "ok" ELSE "rejected"]
  /\ UNCHANGED <<db, batch, filter, writeLock, now, relay, openError, task,
               calls, ops, chain, log>>

\* socket.call('watch relay'): socket.join('relay'); a socket that has not
\* authenticated has no such hook and the call fails
WatchRelay(s) ==
  /\ sockets' = [sockets EXCEPT
                   ![s].channels = IF "auth" \in @ THEN @ \cup {"relay"} ELSE @,
                   ![s].last = "watch"]
  /\ UNCHANGED <<db, batch, filter, writeLock, now, relay, openError, task,
               calls, ops, chain, log>>

\* socket.call('unwatch relay'): socket.leave('relay')
UnwatchRelay(s) ==
  /\ sockets' = [sockets EXCEPT
                   ![s].channels = IF "auth" \in @ THEN @ \ {"relay"} ELSE @,
                   ![s].last = "unwatch"]
  /\ UNCHANGED <<db, batch, filter, writeLock, now, relay, openError, task,
               calls, ops, chain, log>>

\* -------------------------------------------------- RelayIndexer.indexBlock
\* mutant of SetAdd: satisfied kept as an array, satisfied.push(req)
SetAddPush(set, id) == Append(set, id)

\* satisfied.add(req) on a JavaScript Set: insertion order, no duplicates
SetAdd(set, id) == IF id \in Range(set) THEN set ELSE Append(set, id)

RECURSIVE SetAddAll(_, _)
\* for (const req of record.requests) satisfied.add(req)
SetAddAll(set, reqs) ==
  IF reqs = <<>> THEN set ELSE SetAddAll(SetAdd(set, Head(reqs)), Tail(reqs))

\* has(item), with the predicate the call was given
Has(h, item) == IF h.filter THEN FilterTest(item) ELSE item \in h.items

\* getOutpointRecord(prevout.hash, prevout.index): null when the row is absent
GetOutpointRecord(op) == IF KeyO(op) \in Keys THEN db[KeyO(op)] ELSE NoVal

\* getScriptRecord(script.toRaw()): null when the row is absent
GetScriptRecord(sc) == IF KeyS(sc) \in Keys THEN db[KeyS(sc)] ELSE NoVal

\* this.emit('requests satisfied', {txid, height, satisfied: Array.from(..)})
Event(txid, height, sat) == [txid |-> txid, height |-> height, satisfied |-> sat]

\* mutant of Emit: an event for every transaction
EmitAlways(events, txid, height, sat) ==
  Append(events, Event(txid, height, sat))

\* if (satisfied.size > 0) this.emit(...)
Emit(events, txid, height, sat) ==
  IF Len(sat) > 0 THEN Append(events, Event(txid, height, sat)) ELSE events

\* item k of a transaction: its inputs come first, then its outputs
ItemAt(tx, k) ==
  IF k <= Len(tx.ins) THEN ItemO(tx.ins[k]) ELSE ItemS(tx.outs[k - Len(tx.ins)])

\* mutant of LookupAt: every lookup is made in the script index
LookupAtScript(tx, k) ==
  GetScriptRecord(IF k <= Len(tx.ins) THEN tx.ins[k] ELSE tx.outs[k - Len(tx.ins)])

\* the record the confirming lookup of item k reads
LookupAt(tx, k) ==
  IF k <= Len(tx.ins)
    THEN GetOutpointRecord(tx.ins[k])
    ELSE GetScriptRecord(tx.outs[k - Len(tx.ins)])

RECURSIVE IndexBlockRun(_)
\* indexBlock from item k of transaction ti, up to its next await: items that
\* has() rejects are passed over; at a hit the lookup is issued and the call
\* waits for the store; after the last output of a transaction the event is
\* emitted and the next transaction starts with an empty set.
IndexBlockRun(tk) ==
  IF tk.ti > Len(tk.blk)
    THEN [tk EXCEPT !.pc = "done", !.ret = "ok", !.ti = 0, !.k = 0]
    ELSE LET tx == tk.blk[tk.ti]
         IN IF tk.k > Len(tx.ins) + Len(tx.outs)
              THEN IndexBlockRun(
                     [tk EXCEPT !.events = Emit(tk.events, tk.ti, tk.height, tk.sat),
                                !.sat = <<>>, !.ti = tk.ti + 1, !.k = 1])
              ELSE IF Has(tk.has, ItemAt(tx, tk.k))
                     THEN [tk EXCEPT !.pc = "ib_get", !.rec = LookupAt(tx, tk.k)]
                     ELSE IndexBlockRun([tk EXCEPT !.k = tk.k + 1])

\* indexBlock(meta, block, view, has): the call.  has = null stands for
\* this.has, the Relay's filter test.
IndexBlock(t, height, blk, h) ==
  /\ CanStart(t)
  /\ task' = [task EXCEPT ![t] =
                IndexBlockRun(
                  [IdleTask EXCEPT !.pc = "ib_run", !.op = "indexBlock",
                                   !.blk = blk, !.has = h, !.height = height,
                                   !.ti = 1, !.k = 1,
                                   !.pre = {c \in calls : c.ok}])]
  /\ ops' = ops + 1
  /\ relay' = "serving"
  /\ InitSockets(NewEvents(t))
  /\ UNCHANGED <<db, batch, filter, writeLock, now, openError, calls, chain, log>>

\* a scan goes on to the next block of the chain when one is processed
AfterBlock(tk) ==
  IF tk.pc = "done" /\ tk.scan
    THEN [tk EXCEPT !.pc = "sc_next", !.ret = "none"]
    ELSE tk

\* mutant of IndexBlockItem: a missing record ends the call with an error
IndexBlockItemStrict(t) ==
  /\ task[t].pc = "ib_get"
  /\ LET tk == task[t]
     IN task' = [task EXCEPT ![t] =
                   IF tk.rec = NoVal
                     THEN Settle([tk EXCEPT !.rec = NoVal], "err")
                     ELSE AfterBlock(
                            IndexBlockRun(
                              [tk EXCEPT !.pc = "ib_run", !.rec = NoVal,
                                         !.sat = SetAddAll(tk.sat, tk.rec.requests),
                                         !.k = tk.k + 1]))]
  /\ InitSockets(NewEvents(t))
  /\ UNCHANGED <<db, batch, filter, writeLock, now, relay, openError, calls, ops,
               chain, log>>

\* indexBlock resumed after getOutpointRecord / getScriptRecord: a missing
\* record is logged and passed over, else its requests join satisfied
IndexBlockItem(t) ==
  /\ task[t].pc = "ib_get"
  /\ LET tk == task[t]
         sat == IF tk.rec = NoVal THEN tk.sat ELSE SetAddAll(tk.sat, tk.rec.requests)
     IN task' = [task EXCEPT ![t] =
                   AfterBlock(
                     IndexBlockRun([tk EXCEPT !.pc = "ib_run", !.rec = NoVal,
                                              !.sat = sat, !.k = tk.k + 1]))]
  /\ InitSockets(NewEvents(t))
  /\ UNCHANGED <<db, batch, filter, writeLock, now, relay, openError, calls, ops,
               chain, log>>

\* indexBlock resumed after getOutpointRecord / getScriptRecord when the
\* lookup rejects (this.db.get fails, or the record's decode throws): there
\* is no try around the await, and indexBlock rejects with the error
IndexBlockItemRejects(t) ==
  /\ task[t].pc = "ib_get"
  /\ task' = [task EXCEPT ![t] = Settle([task[t] EXCEPT !.rec = NoVal], "err")]
  /\ UNCHANGED <<db, batch, filter, writeLock, now, relay, openError, calls, ops,
               chain, log, sockets>>

\* ------------------------------- RelayIndexer.putScriptRecord, called alone
\* The record objects a caller can build: fromOptions takes any array of ids.
RecordRequests == {<<>>} \cup {<<id>> : id \in Ids}
ScriptObjects == {ScriptObject(sc, reqs) : sc \in Scripts, reqs \in RecordRequests}
OutpointObjects == {OutpointObject(op, reqs) : op \in Outpoints, reqs \in RecordRequests}

\* if (this.batch) this.put(key, record.encode());
\* else await this.db.put(key, record.encode()); return record
PutRecord(t, tk, k, raw) ==
  /\ PutOrBuffer(k, raw)
  /\ task' = [task EXCEPT ![t] = Settle(tk, "ok")]

\* putScriptRecord(srecord, request): the call, up to
\* await this.hasScriptRecord(srecord)
PutScriptRecord(t, srecord, id) ==
  /\ CanStart(t)
  /\ task' = [task EXCEPT ![t] =
                [IdleTask EXCEPT !.pc = "ps_has", !.op = "putScriptRecord",
                                 !.arg = srecord, !.snap = Snap,
                                 !.req = [NoReq EXCEPT !.id = id],
                                 !.flag = db[KeyS(srecord.script)] # NoVal]]
  /\ ops' = ops + 1
  /\ relay' = "serving"
  /\ UNCHANGED <<db, batch, filter, writeLock, now, openError, calls, chain, log, sockets>>

\* putScriptRecord resumed after hasScriptRecord: the lookup of the stored
\* record, or the put of srecord
PutScriptRecordHas(t) ==
  /\ task[t].pc = "ps_has"
  /\ LET tk == [task[t] EXCEPT !.flag = FALSE]
         k == KeyS(tk.arg.script)
     IN IF task[t].flag
          THEN /\ task' = [task EXCEPT ![t] =
                             [tk EXCEPT !.pc = "ps_get", !.rec = db[k]]]
               /\ UNCHANGED <<db, batch>>
          ELSE PutRecord(t, [tk EXCEPT !.s = tk.arg], k, EncodeScript(tk.arg))
  /\ UNCHANGED <<filter, writeLock, now, relay, openError, calls, ops, chain, log, sockets>>

\* putScriptRecord resumed after getScriptRecord: r.add(request.id) and the
\* put of r
PutScriptRecordGet(t) ==
  /\ task[t].pc = "ps_get"
  /\ LET tk == [task[t] EXCEPT !.rec = NoVal]
         k == KeyS(tk.arg.script)
         r == RecordAdd(DecodeScript(task[t].rec, Sha256(tk.arg.script)), tk.req.id)
     IN IF task[t].rec = NoVal
          THEN /\ task' = [task EXCEPT ![t] = Settle(tk, "err")]
               /\ UNCHANGED <<db, batch>>
          ELSE PutRecord(t, [tk EXCEPT !.s = r], k, EncodeScript(r))
  /\ UNCHANGED <<filter, writeLock, now, relay, openError, calls, ops, chain, log, sockets>>

\* putOutpointRecord(orecord, request): the call, up to
\* await this.hasOutpointRecord(orecord)
PutOutpointRecord(t, orecord, id) ==
  /\ CanStart(t)
  /\ task' = [task EXCEPT ![t] =
                [IdleTask EXCEPT !.pc = "po_has", !.op = "putOutpointRecord",
                                 !.arg = orecord, !.snap = Snap,
                                 !.req = [NoReq EXCEPT !.id = id],
                                 !.flag = db[KeyO(orecord.prevout)] # NoVal]]
  /\ ops' = ops + 1
  /\ relay' = "serving"
  /\ UNCHANGED <<db, batch, filter, writeLock, now, openError, calls, chain, log, sockets>>

\* putOutpointRecord resumed after hasOutpointRecord: with a stored record
\* this.getOutpointRecord({hash, index}) throws; else the put of orecord
PutOutpointRecordHas(t) ==
  /\ task[t].pc = "po_has"
  /\ LET tk == [task[t] EXCEPT !.flag = FALSE]
     IN IF task[t].flag
          THEN /\ task' = [task EXCEPT ![t] = Settle(tk, "err")]
               /\ UNCHANGED <<db, batch>>
          ELSE PutRecord(t, [tk EXCEPT !.o = tk.arg], KeyO(tk.arg.prevout),
                         EncodeOutpoint(tk.arg))
  /\ UNCHANGED <<filter, writeLock, now, relay, openError, calls, ops, chain, log, sockets>>

\* ------------------------------------------------------- the rescan driver
\* mutant of ScanFirst: a scan resumes after the tip the last scan reached
ScanFirstResumed(height) ==
  IF log.kind = "scan" THEN Len(log.chain) ELSE height - 1

\* the height below the first block of a scan from height: every scan starts
\* over at the height it is given
ScanFirst(height) == height - 1

\* Relay.scan(height, has): the call; the first block is fetched from the
\* chain
RelayScan(t, height, h) ==
  /\ CanStart(t)
  /\ task' = [task EXCEPT ![t] =
                [IdleTask EXCEPT !.pc = "sc_next", !.op = "scan", !.scan = TRUE,
                                 !.from = height, !.height = ScanFirst(height),
                                 !.has = h, !.snap = Snap]]
  /\ ops' = ops + 1
  /\ relay' = "serving"
  /\ UNCHANGED <<db, batch, filter, writeLock, now, openError, calls, chain, log, sockets>>

\* the scan, with the next block fetched: indexBlock(meta, block, view, has)
\* up to its first await; past the tip the scan is over
ScanNext(t) ==
  /\ task[t].pc = "sc_next"
  /\ LET tk == task[t]
         h == tk.height + 1
     IN task' = [task EXCEPT ![t] =
                   IF h > Len(chain)
                     THEN Settle(tk, "ok")
                     ELSE AfterBlock(IndexBlockRun(
                            [tk EXCEPT !.pc = "ib_run", !.blk = chain[h],
                                       !.height = h, !.ti = 1, !.k = 1]))]
  /\ InitSockets(NewEvents(t))
  /\ UNCHANGED <<db, batch, filter, writeLock, now, relay, openError, calls, ops,
               chain, log>>

\* the chain connects a block: indexBlock(meta, block, view), with this.has
ConnectBlock(t, blk) ==
  /\ CanStart(t)
  /\ Len(chain) < MaxChain
  /\ chain' = Append(chain, blk)
  /\ task' = [task EXCEPT ![t] =
                IndexBlockRun(
                  [IdleTask EXCEPT !.pc = "ib_run", !.op = "connect",
                                   !.blk = blk, !.has = HasFilter,
                                   !.height = Len(chain) + 1,
                                   !.ti = 1, !.k = 1,
                                   !.pre = {c \in calls : c.ok}])]
  /\ ops' = ops + 1
  /\ relay' = "serving"
  /\ InitSockets(NewEvents(t))
  /\ UNCHANGED <<db, batch, filter, writeLock, now, openError, calls, log>>

\* ------------------------------------------------- HTTP PUT /relay/request
\* The handler up to its first await: res.json(400) when isValidRequestInput
\* fails, else Request.fromOptions and this.relay.addRequest(request).
HttpPutRequest(t, body) ==
  /\ CanStart(t)
  /\ LET tk == [IdleTask EXCEPT !.op = "httpPut", !.body = body, !.snap = Snap,
                                !.req = Stamp(HttpRequest(body))]
     IN IF ~IsValidRequestInput(body)
          THEN /\ task' = [task EXCEPT ![t] =
                             Settle([tk EXCEPT !.status = 400, !.req = NoReq], "ok")]
               /\ UNCHANGED <<db, batch, calls>>
          ELSE AddRequestFromSpends(t, tk,
                 BatchAdd(IF batch.open THEN batch ELSE StartBatch,
                          Put(KeyI(body.id), RequestRow(tk.req))))
  /\ ops' = ops + 1
  /\ relay' = "serving"
  /\ UNCHANGED <<filter, writeLock, now, openError, chain, log, sockets>>

\* valid.buf('id') of a body without the field: null
NoId == 0
\* an id that is a buffer of fewer or more than 32 bytes
ShortId == NumIds + 1
\* a pays of more than consensus.MAX_SCRIPT_SIZE bytes
LargeScript == NumScripts + 1

\* The JSON bodies of PUT /relay/request with any id and any pays (address
\* and value well formed).
RawBodies ==
  [id : {NoId, ShortId} \cup Ids, outpoint : Outpoints, hash : BOOLEAN,
   index : BOOLEAN, pays : {NoPays, LargeScript} \cup Scripts,
   height : {NoHeight} \cup Heights]

\* the handler throws before this.relay.addRequest: the server's error
\* handler answers err.statusCode || 500
HttpThrow(t, raw, code) ==
  /\ CanStart(t)
  /\ task' = [task EXCEPT ![t] =
                Settle([IdleTask EXCEPT !.op = "httpPut", !.body = raw,
                                        !.snap = Snap, !.status = code], "err")]
  /\ ops' = ops + 1
  /\ relay' = "serving"
  /\ UNCHANGED <<db, batch, filter, writeLock, now, openError, calls, chain, log,
               sockets>>

\* PUT /relay/request, from the top of the handler: id.length of a null id
\* is a TypeError (500); enforce(id.length === 32) throws with statusCode
\* 400; isValidRequestInput takes any buffer as pays (TODO: check for size),
\* and Request.fromOptions then asserts pays.length <= MAX_SCRIPT_SIZE, an
\* AssertionError without a statusCode (500).
HttpPut(t, raw) ==
  IF raw.id = NoId THEN HttpThrow(t, raw, 500)
  ELSE IF raw.id = ShortId THEN HttpThrow(t, raw, 400)
  ELSE IF raw.pays = LargeScript THEN HttpThrow(t, raw, 500)
  ELSE HttpPutRequest(t, raw)

\* ------------------------------------------------------------------- spec
\* the caller has taken the result of a settled call
Return(t) ==
  /\ task[t].pc = "done"
  /\ task' = [task EXCEPT ![t] = IdleTask]
  /\ log' = IF task[t].op = "scan"
              THEN [kind |-> "scan", from |-> task[t].from, has |-> task[t].has,
                    chain |-> chain, db |-> db, filter |-> filter,
                    events |-> task[t].events]
              ELSE log
  /\ UNCHANGED <<db, batch, filter, writeLock, now, relay, openError, calls, ops,
               chain, sockets>>

NoneDone == \A t \in Tasks : task[t].pc # "done"
AllIdle == \A t \in Tasks : task[t].pc = "idle"

\* a call is made by task t
Start(t) ==
  \/ \E r \in Requests : AddRequest(t, r)
  \/ \E r \in Requests : PutRequest(t, r)
  \/ \E id \in Ids : DeleteRequest(t, id)
  \/ Wipe(t)
  \/ \E height \in Heights, blk \in Blocks, h \in HasChoices :
       IndexBlock(t, height, blk, h)

\* a call in flight runs to its next await
Step(t) ==
  \/ AddRequestPutOutpoint(t)
  \/ AddRequestAfterOutpoint(t)
  \/ AddRequestHasScript(t)
  \/ AddRequestPutScript(t)
  \/ AddRequestAfterScript(t)
  \/ PutRequestLocked(t)
  \/ DeleteRequestLocked(t)
  \/ WipeScan(t)
  \/ WipeWrite(t)
  \/ IndexBlockItem(t)

\* Calls overlap at their awaits (within one second of the clock).
Next ==
  \/ \E t \in Tasks : Return(t)
  \/ NoneDone /\ Open
  \/ NoneDone /\ ops < MaxOps /\ Restart
  \/ NoneDone /\ ops < MaxOps /\ \E t \in Tasks : Start(t)
  \/ NoneDone /\ \E t \in Tasks : Step(t)

Spec == Init /\ [][Next]_vars

\* a lone call runs to its next await; the batch it opened (or found open)
\* stays open until its commit, so it never waits for a put of a record
SeqStep(t) ==
  \/ AddRequestPutOutpoint(t)
  \/ AddRequestHasScript(t)
  \/ AddRequestPutScript(t)
  \/ PutRequestLocked(t)
  \/ DeleteRequestLocked(t)
  \/ WipeScan(t)
  \/ WipeWrite(t)
  \/ IndexBlockItem(t)

\* One call at a time: a call is made only when no other is in flight.
SeqNext ==
  \/ Return(1)
  \/ NoneDone /\ Open
  \/ NoneDone /\ ops < MaxSeqOps /\ Restart
  \/ NoneDone /\ ops < MaxSeqOps /\ Start(1)
  \/ NoneDone /\ SeqStep(1)

SeqSpec == Init /\ [][SeqNext]_vars

\* One call at a time, while the clock moves on.
TimedNext ==
  \/ Return(1)
  \/ NoneDone /\ Open
  \/ NoneDone /\ ops < MaxTimedOps /\ Restart
  \/ NoneDone /\ Tick
  \/ NoneDone /\ ops < MaxTimedOps /\ Start(1)
  \/ NoneDone /\ SeqStep(1)

TimedSpec == Init /\ [][TimedNext]_vars

\* Only addRequest calls and block processing, overlapping at their awaits.
AddStart(t) ==
  \/ \E r \in Requests : AddRequest(t, r)
  \/ \E height \in Heights, blk \in Blocks, h \in HasChoices :
       IndexBlock(t, height, blk, h)

AddStep(t) ==
  \/ AddRequestPutOutpoint(t)
  \/ AddRequestAfterOutpoint(t)
  \/ AddRequestHasScript(t)
  \/ AddRequestPutScript(t)
  \/ AddRequestAfterScript(t)
  \/ IndexBlockItem(t)

AddNext ==
  \/ \E t \in Tasks : Return(t)
  \/ NoneDone /\ Open
  \/ NoneDone /\ ops < MaxOps /\ \E t \in Tasks : AddStart(t)
  \/ NoneDone /\ \E t \in Tasks : AddStep(t)

AddSpec == Init /\ [][AddNext]_vars

\* The HTTP API and the rescan driver, one call at a time, while the chain
\* grows.
ApiStart(t) ==
  \/ \E body \in Bodies : HttpPutRequest(t, body)
  \/ \E blk \in Blocks : ConnectBlock(t, blk)
  \/ \E height \in Heights, h \in HasChoices : RelayScan(t, height, h)

ApiStep(t) ==
  \/ AddRequestPutOutpoint(t)
  \/ AddRequestHasScript(t)
  \/ AddRequestPutScript(t)
  \/ IndexBlockItem(t)
  \/ ScanNext(t)

ApiNext ==
  \/ Return(1)
  \/ NoneDone /\ Open
  \/ NoneDone /\ ops < MaxApiOps /\ ApiStart(1)
  \/ NoneDone /\ ApiStep(1)

ApiSpec == Init /\ [][ApiNext]_vars

\* Block processing while websocket clients come and go.
WsStart(t) ==
  \/ \E r \in Requests : AddRequest(t, r)
  \/ \E height \in Heights, blk \in Blocks, h \in HasChoices :
       IndexBlock(t, height, blk, h)

WsSocket(s) ==
  \/ \E key \in ApiKeys : Auth(s, key)
  \/ WatchRelay(s)
  \/ UnwatchRelay(s)

WsNext ==
  \/ Return(1)
  \/ NoneDone /\ Open
  \/ NoneDone /\ ops < MaxWsOps /\ WsStart(1)
  \/ NoneDone /\ SeqStep(1)
  \/ \E s \in Sockets : WsSocket(s)

WsSpec == Init /\ [][WsNext]_vars

\* Requests are added and blocks of several transactions processed, one call
\* at a time.
BlockStart(t) ==
  \/ \E r \in Requests : AddRequest(t, r)
  \/ \E height \in Heights, blk \in LongBlocks, h \in HasChoices :
       IndexBlock(t, height, blk, h)

BlockNext ==
  \/ Return(1)
  \/ NoneDone /\ Open
  \/ NoneDone /\ ops < MaxBlockOps /\ BlockStart(1)
  \/ NoneDone /\ SeqStep(1)

BlockSpec == Init /\ [][BlockNext]_vars

\* The same, with lookups that can fail.
FaultNext ==
  \/ BlockNext
  \/ NoneDone /\ IndexBlockItemRejects(1)

FaultSpec == Init /\ [][FaultNext]_vars

\* The HTTP API with bodies of any id and pays, one call at a time, while
\* the chain grows.
HttpStart(t) ==
  \/ \E raw \in RawBodies : HttpPut(t, raw)
  \/ \E blk \in Blocks : ConnectBlock(t, blk)

HttpNext ==
  \/ Return(1)
  \/ NoneDone /\ Open
  \/ NoneDone /\ ops < MaxHttpOps /\ HttpStart(1)
  \/ NoneDone /\ ApiStep(1)

HttpSpec == Init /\ [][HttpNext]_vars

\* ------------------------------------------------ RelayIndexer.unindexBlock
\* mutant of UnindexBlock: the records of the block's inputs and outputs are
\* deleted when the block is disconnected
UnindexBlockReverting(t, height, blk) ==
  /\ CanStart(t)
  /\ task' = [task EXCEPT ![t] =
                Settle([IdleTask EXCEPT !.op = "unindexBlock", !.blk = blk,
                                        !.height = height], "ok")]
  /\ db' = [k \in Keys |->
              IF \E i \in 1..Len(blk) :
                   \/ \E j \in 1..Len(blk[i].ins) : k = KeyO(blk[i].ins[j])
                   \/ \E j \in 1..Len(blk[i].outs) : k = KeyS(blk[i].outs[j])
                THEN NoVal ELSE db[k]]
  /\ ops' = ops + 1
  /\ relay' = "serving"
  /\ UNCHANGED <<batch, filter, writeLock, now, openError, calls, chain, log,
               sockets>>

\* unindexBlock(meta, block, view): the body is an empty statement, and the
\* call resolves at once
UnindexBlock(t, height, blk) ==
  /\ CanStart(t)
  /\ task' = [task EXCEPT ![t] =
                Settle([IdleTask EXCEPT !.op = "unindexBlock", !.blk = blk,
                                        !.height = height], "ok")]
  /\ ops' = ops + 1
  /\ relay' = "serving"
  /\ UNCHANGED <<db, batch, filter, writeLock, now, openError, calls, chain, log,
               sockets>>

\* Requests are added while blocks are connected and disconnected, the calls
\* overlapping at their awaits.
ReorgStart(t) ==
  \/ \E r \in Requests : AddRequest(t, r)
  \/ \E height \in Heights, blk \in Blocks, h \in HasChoices :
       IndexBlock(t, height, blk, h)
  \/ \E height \in Heights, blk \in Blocks : UnindexBlock(t, height, blk)

ReorgNext ==
  \/ \E t \in Tasks : Return(t)
  \/ NoneDone /\ Open
  \/ NoneDone /\ ops < MaxReorgOps /\ \E t \in Tasks : ReorgStart(t)
  \/ NoneDone /\ \E t \in Tasks : AddStep(t)

ReorgSpec == Init /\ [][ReorgNext]_vars

\* The indexer's write operations, one call at a time.
RecStart(t) ==
  \/ \E r \in Requests : AddRequest(t, r)
  \/ \E r \in Requests : PutRequest(t, r)
  \/ \E srecord \in ScriptObjects, id \in Ids : PutScriptRecord(t, srecord, id)
  \/ \E orecord \in OutpointObjects, id \in Ids : PutOutpointRecord(t, orecord, id)
  \/ \E id \in Ids : DeleteRequest(t, id)
  \/ Wipe(t)

RecStep(t) ==
  \/ AddRequestPutOutpoint(t)
  \/ AddRequestHasScript(t)
  \/ AddRequestPutScript(t)
  \/ PutRequestLocked(t)
  \/ PutScriptRecordHas(t)
  \/ PutScriptRecordGet(t)
  \/ PutOutpointRecordHas(t)
  \/ DeleteRequestLocked(t)
  \/ WipeScan(t)
  \/ WipeWrite(t)

RecNext ==
  \/ Return(1)
  \/ NoneDone /\ Open
  \/ NoneDone /\ ops < MaxSeqOps /\ RecStart(1)
  \/ NoneDone /\ RecStep(1)

RecSpec == Init /\ [][RecNext]_vars

\* ----------------------------------------------------------------- claims
NoDup(s) == \A i, j \in 1..Len(s) : i # j => s[i] # s[j]

\* task t has just finished processing a block with the Relay's own filter
\* test as the membership predicate
BlockDone(t) ==
  task[t].pc = "done" /\ task[t].op = "indexBlock" /\ task[t].has = HasFilter

\* the block of task t has an event for transaction i that lists id
Notified(t, i, id) ==
  \E n \in 1..Len(task[t].events) :
    /\ task[t].events[n].txid = i
    /\ id \in Range(task[t].events[n].satisfied)

\* C1: a Request whose spends is O, added by an addRequest that succeeded
\* before the block was processed (no wipe in between), is listed in an event
\* for every transaction of the block that has an input spending O.
C1_SpendNotified ==
  \A t \in Tasks : BlockDone(t) =>
    \A c \in task[t].pre, i \in 1..Len(task[t].blk) :
      (c.spends # NullOutpoint /\ c.spends \in Range(task[t].blk[i].ins))
        => Notified(t, i, c.id)

\* C2: a Request whose pays is S, added by an addRequest that succeeded before
\* the block was processed (no wipe in between), is listed in an event for
\* every transaction of the block that has an output with script S.
C2_PayNotified ==
  \A t \in Tasks : BlockDone(t) =>
    \A c \in task[t].pre, i \in 1..Len(task[t].blk) :
      (c.pays # EmptyScript /\ c.pays \in Range(task[t].blk[i].outs))
        => Notified(t, i, c.id)

MatchedTwice(t, tx, id) ==
  /\ \E a \in 1..Len(tx.ins) :
       /\ Has(task[t].has, ItemO(tx.ins[a]))
       /\ GetOutpointRecord(tx.ins[a]) # NoVal
       /\ id \in Range(GetOutpointRecord(tx.ins[a]).requests)
  /\ \E b \in 1..Len(tx.outs) :
       /\ Has(task[t].has, ItemS(tx.outs[b]))
       /\ GetScriptRecord(tx.outs[b]) # NoVal
       /\ id \in Range(GetScriptRecord(tx.outs[b]).requests)

CalledWithSpends(op) == {c.id : c \in {d \in calls : d.spends = op}}

\* C4: once addRequest has been called for two Requests with distinct ids and
\* the same spends, the OutpointRecord stored for that outpoint lists exactly
\* those two ids.
C4_SharedOutpoint ==
  \A op \in Outpoints :
    (AllIdle /\ Cardinality(CalledWithSpends(op)) = 2)
      => /\ db[KeyO(op)] # NoVal
         /\ Range(db[KeyO(op)].requests) = CalledWithSpends(op)

\* the Requests of pre whose pays is sc
AddedWithPays(pre, sc) == {c.id : c \in {d \in pre : d.pays = sc}}

\* C5: with three Requests of distinct ids and the same pays added, a
\* transaction with a single output carrying that script gets exactly one
\* event, and the event lists the three ids.
C5_FanOut ==
  \A t \in Tasks : BlockDone(t) =>
    \A sc \in Scripts, i \in 1..Len(task[t].blk) :
      (/\ Cardinality(AddedWithPays(task[t].pre, sc)) = 3
       /\ task[t].blk[i].outs = <<sc>>)
        => /\ Cardinality({n \in 1..Len(task[t].events) :
                             task[t].events[n].txid = i}) = 1
           /\ \A id \in AddedWithPays(task[t].pre, sc) : Notified(t, i, id)

\* C6: supplying a (key, id) pair a second time leaves the stored record as
\* it was: no stored ScriptRecord or OutpointRecord lists an id twice.
C6_PutIdempotent ==
  \A k \in Keys :
    (k[1] \in {"s", "o"} /\ db[k] # NoVal) => NoDup(db[k].requests)

\* the stored records that a stored Request row asks for list its id
RowIndexed(id) ==
  LET row == db[KeyI(id)]
  IN /\ row.spends # NullOutpoint =>
          /\ db[KeyO(row.spends)] # NoVal
          /\ id \in Range(db[KeyO(row.spends)].requests)
     /\ row.pays # EmptyScript =>
          /\ db[KeyS(row.pays)] # NoVal
          /\ id \in Range(db[KeyS(row.pays)].requests)

\* C7: addRequest is atomic with respect to the store.  With addRequest the
\* only writer, the store holds a Request row together with the record
\* updates derived from it, or none of them: every stored row is indexed by
\* its records, and every id a stored record lists has its row.
C7_AddRequestAtomic ==
  /\ \A id \in Ids : db[KeyI(id)] # NoVal => RowIndexed(id)
  /\ \A k \in Keys :
       (k[1] \in {"s", "o"} /\ db[k] # NoVal)
         => \A id \in Range(db[k].requests) : db[KeyI(id)] # NoVal

\* task t is inside a write operation, between its first and its last access
\* to the store and the batch
Writing(t) ==
  task[t].pc \in {"ar_o_has", "ar_o_put", "ar_s_has", "ar_s_get", "ar_s_put",
                  "wp_scanned"}

\* C8: the write operations are mutually exclusive: a task inside one holds
\* the write-lock, so no two tasks are inside write operations at once.
C8_WritersExclusive ==
  /\ \A t \in Tasks : Writing(t) => writeLock = t
  /\ \A t, u \in Tasks : (t # u /\ Writing(t)) => ~Writing(u)

\* C9: immediately after Relay.open(), the Filter tests positive for the
\* script of every stored ScriptRecord and for the outpoint of every stored
\* OutpointRecord.
C9_FilterAfterOpen ==
  relay = "opened" =>
    /\ \A sc \in Scripts :
         db[KeyS(sc)] # NoVal => FilterTest(ItemS(db[KeyS(sc)].script))
    /\ \A op \in Outpoints :
         db[KeyO(op)] # NoVal => FilterTest(ItemO(op))

\* RelayIndexer.getRequests(): the stored Request rows
GetRequests == {id \in Ids : db[KeyI(id)] # NoVal}

\* C10: when wipe() has completed, every key that was stored before it reads
\* as null, and getRequests() is empty.
C10_WipeClears ==
  \A t \in Tasks :
    (task[t].pc = "done" /\ task[t].op = "wipe")
      => /\ \A k \in task[t].keys : db[k] = NoVal
         /\ GetRequests = {}

\* C10 witness: a wipe has completed that found a Request row, an
\* OutpointRecord and a ScriptRecord in the store.
C10_Witness ==
  \E t \in Tasks :
    /\ task[t].pc = "done" /\ task[t].op = "wipe"
    /\ \A p \in WipedPrefixes : \E k \in task[t].keys : k[1] = p

\* task t has answered a PUT /relay/request whose body has neither a
\* complete spends nor a pays
AnsweredNoSpendsNoPays(t) ==
  /\ task[t].pc = "done" /\ task[t].op = "httpPut"
  /\ ~(task[t].body.hash /\ task[t].body.index)
  /\ task[t].body.pays = NoPays

\* C11: a PUT /relay/request whose body has neither a valid spends nor a pays
\* is answered 400, and the store, the batch and the Filter are as the
\* request found them.
C11_InvalidPutRejected ==
  \A t \in Tasks : AnsweredNoSpendsNoPays(t) =>
    /\ task[t].status = 400
    /\ Snap = task[t].snap

\* C11 witness: such a request, with a spends that has a hash and no index,
\* has been answered 400 while the store holds a Request.
C11_Witness ==
  \E t \in Tasks :
    /\ AnsweredNoSpendsNoPays(t)
    /\ task[t].body.hash
    /\ task[t].status = 400
    /\ \E id \in Ids : db[KeyI(id)] # NoVal

\* C12: every Request row of the store has a non-null spends or a non-empty
\* pays.
C12_RequestHasTarget ==
  \A id \in Ids :
    db[KeyI(id)] # NoVal =>
      (db[KeyI(id)].spends # NullOutpoint \/ db[KeyI(id)].pays # EmptyScript)

\* addRequest(task[t].req), called directly, has returned its triple
AddRequestReturned(t) ==
  task[t].pc = "done" /\ task[t].op = "addRequest" /\ task[t].ret = "ok"

GetRequest(id) ==
  IF db[KeyI(id)] = NoVal
    THEN NoVal
    ELSE [id |-> id, spends |-> db[KeyI(id)].spends, pays |-> db[KeyI(id)].pays,
          timestamp |-> db[KeyI(id)].timestamp]

\* C14: when addRequest has returned (r, orecord, srecord), getRequest(r.id)
\* equals r, and getOutpointRecord(spends) and getScriptRecord(pays) equal the
\* orecord and srecord returned, also when the record existed before the call.
C14_TripleMatchesStore ==
  \A t \in Tasks : AddRequestReturned(t) =>
    LET r == task[t].req
    IN /\ GetRequest(r.id) = r
       /\ r.spends # NullOutpoint => GetOutpointRecord(r.spends) = task[t].o
       /\ r.pays # EmptyScript => GetScriptRecord(r.pays) = task[t].s

\* a put called with no batch open has returned: its record went to the store
WroteToStore(t, op) ==
  /\ task[t].pc = "done" /\ task[t].op = op /\ task[t].ret = "ok"
  /\ ~task[t].snap.batch.open

GetLatestRequestForward ==
  IF GetRequests = {}
    THEN <<>>
    ELSE <<GetRequest(CHOOSE id \in GetRequests : \A j \in GetRequests : id <= j)>>

\* RelayIndexer.getLatestRequest(): db.range({limit: 1, reverse: true, ...})
\* over the Request rows, i.e. the list of at most one Request, the one
\* with the greatest key
GetLatestRequest ==
  IF GetRequests = {}
    THEN <<>>
    ELSE <<GetRequest(CHOOSE id \in GetRequests : \A j \in GetRequests : id >= j)>>

\* C16 as stated: when addRequest(R) has returned, the latest Request is R,
\* whatever Requests are stored.
C16_LatestIsAdded ==
  \A t \in Tasks : AddRequestReturned(t) =>
    GetLatestRequest = <<task[t].req>>

\* C16 as amended: when addRequest(R) has returned, the latest Request is
\* the stored Request with the greatest id; it is R when no stored Request
\* has a greater id than R.
C16_LatestIsGreatest ==
  \A t \in Tasks : AddRequestReturned(t) =>
    /\ Len(GetLatestRequest) = 1
    /\ \A id \in GetRequests : GetLatestRequest[1].id >= id
    /\ (\A id \in GetRequests : task[t].req.id >= id)
         => GetLatestRequest = <<task[t].req>>

\* C16 witness: addRequest(R) has returned, the store holds a Request with a
\* smaller id as well, and the latest Request is R.
C16_Witness ==
  \E t \in Tasks :
    /\ AddRequestReturned(t)
    /\ \E id \in GetRequests : id < task[t].req.id
    /\ GetLatestRequest = <<task[t].req>>

\* deleteRequest(id) has returned in task t
DeleteReturned(t) == task[t].pc = "done" /\ task[t].op = "deleteRequest"

\* C17: deleteRequest(id) removes the Request row of id and nothing else:
\* every ScriptRecord and OutpointRecord, also one that lists id, every other
\* Request row and the Filter are as the call found them.  (With a batch
\* open the removal of the row is buffered, and nothing else is.)
C17_DeleteFrame ==
  \A t \in Tasks : DeleteReturned(t) =>
    LET id == task[t].req.id
        was == task[t].snap
    IN /\ \A k \in Keys : k # KeyI(id) => db[k] = was.db[k]
       /\ filter = was.filter
       /\ IF was.batch.open
            THEN /\ db[KeyI(id)] = was.db[KeyI(id)]
                 /\ batch.ops = Append(was.batch.ops, Del(KeyI(id)))
            ELSE /\ db[KeyI(id)] = NoVal
                 /\ batch = was.batch

\* C17 witness: deleteRequest(id) has removed the row of a Request while a
\* ScriptRecord and an OutpointRecord that list id stay in the store.
C17_Witness ==
  \E t \in Tasks :
    /\ DeleteReturned(t)
    /\ task[t].snap.db[KeyI(task[t].req.id)] # NoVal
    /\ db[KeyI(task[t].req.id)] = NoVal
    /\ \E sc \in Scripts :
         db[KeyS(sc)] # NoVal /\ task[t].req.id \in Range(db[KeyS(sc)].requests)
    /\ \E op \in Outpoints :
         db[KeyO(op)] # NoVal /\ task[t].req.id \in Range(db[KeyO(op)].requests)

\* C18: every ScriptRecord and OutpointRecord in the store has a non-empty
\* requests list, whatever sequence of addRequest, putScriptRecord,
\* putOutpointRecord, deleteRequest and wipe has run.
C18_NonEmptyRequests ==
  \A k \in Keys :
    (k[1] \in {"s", "o"} /\ db[k] # NoVal) => Len(db[k].requests) >= 1

\* what a client sees of a 'requests satisfied' event: the transaction, the
\* height and the set of ids
Seen(events) ==
  [n \in 1..Len(events) |->
     [txid |-> events[n].txid, height |-> events[n].height,
      ids |-> Range(events[n].satisfied)]]

\* the scan of task t has ended and repeats the last completed scan: same
\* start height, same membership predicate, same chain, and the store and
\* the filter as that scan left them
ScanRepeated(t) ==
  /\ task[t].pc = "done" /\ task[t].op = "scan"
  /\ log.kind = "scan"
  /\ log.from = task[t].from /\ log.has = task[t].has
  /\ log.chain = chain
  /\ log.db = task[t].snap.db /\ log.db = db
  /\ log.filter = task[t].snap.filter /\ log.filter = filter

C20_ScanNamesOnlyNew ==
  \A t \in Tasks :
    (task[t].op = "httpPut" /\ task[t].scan) =>
      \A n \in 1..Len(task[t].events) :
        \A id \in Range(task[t].events[n].satisfied) : id = task[t].req.id

\* the events emitted in this step (one task runs in a step)
Emitted ==
  LET ts == {t \in Tasks : NewEvents(t) # <<>>}
  IN IF ts = {} THEN <<>> ELSE NewEvents(CHOOSE t \in ts : TRUE)

C22_FilterHasRequest ==
  \A t \in Tasks : AddRequestReturned(t) =>
    \A item \in RequestItems(task[t].req) : FilterTest(item)

\* the record stored for item lists id
Indexed(item, id) ==
  /\ db[item] # NoVal
  /\ id \in Range(db[item].requests)

\* C23: addRequest adds its keys to the Filter after its batch has committed:
\* during the call the Filter holds no key added by it whose record is not
\* in the store, a call that fails leaves the Filter as it found it, and a
\* call that returns has added its keys.
C23_FilterAfterCommit ==
  \A t \in Tasks : task[t].op = "addRequest" =>
    /\ \A item \in (filter \ task[t].snap.filter) \cap RequestItems(task[t].req) :
         Indexed(item, task[t].req.id)
    /\ (task[t].pc = "done" /\ task[t].ret = "err") => filter = task[t].snap.filter
    /\ AddRequestReturned(t) => RequestItems(task[t].req) \subseteq filter

\* the items a transaction asks the membership predicate about
TxItems(tx) ==
  {ItemO(tx.ins[a]) : a \in 1..Len(tx.ins)} \cup {ItemS(tx.outs[b]) : b \in 1..Len(tx.outs)}

\* C24: a Request whose addRequest committed before the processing of a
\* block began is matched against the block, however addRequest calls and
\* block processing interleave: each transaction that spends its outpoint or
\* creates its script gets an event listing its id.
C24_CommittedIsMatched ==
  \A t \in Tasks : BlockDone(t) =>
    \A c \in task[t].pre, i \in 1..Len(task[t].blk) :
      RequestItems(c) \cap TxItems(task[t].blk[i]) # {} => Notified(t, i, c.id)

\* C27: when addRequest has failed, its batch is aborted: no batch is left
\* open, and the store is as the call found it.
C27_FailedAddAborted ==
  \A t \in Tasks :
    (task[t].pc = "done" /\ task[t].op = "addRequest" /\ task[t].ret = "err")
      => /\ ~batch.open
         /\ db = task[t].snap.db

\* indexBlock has ended in task t
IndexBlockEnded(t) == task[t].pc = "done" /\ task[t].op = "indexBlock"

\* the record stored for an item, null when there is none
RecordOf(item) == IF item \in Keys THEN db[item] ELSE NoVal

\* the items of a transaction that the predicate of task t holds for
Hits(t, tx) == {item \in TxItems(tx) : Has(task[t].has, item)}

\* the ids of the records found for the hits of a transaction
Confirmed(t, tx) ==
  UNION {Range(RecordOf(item).requests) :
           item \in {h \in Hits(t, tx) : RecordOf(h) # NoVal}}

\* the ids the events of task t list for transaction i
Listed(t, i) ==
  UNION {Range(task[t].events[n].satisfied) :
           n \in {m \in 1..Len(task[t].events) : task[t].events[m].txid = i}}

\* C25: an item the membership predicate holds for but that has no record
\* adds nothing to an event and raises no error, and the remaining inputs,
\* outputs and transactions are still processed: indexBlock returns, and the
\* ids listed for each transaction are those of the records found for its
\* hits.
C25_FalsePositivePassed ==
  \A t \in Tasks : IndexBlockEnded(t) =>
    /\ task[t].ret = "ok"
    /\ \A i \in 1..Len(task[t].blk) : Listed(t, i) = Confirmed(t, task[t].blk[i])

\* C25 witness: a block has been processed in which a hit without a record
\* (an input) is followed by a hit with one, which is listed.
C25_Witness ==
  \E t \in Tasks :
    /\ IndexBlockEnded(t) /\ task[t].ret = "ok"
    /\ \E i \in 1..Len(task[t].blk) :
         /\ \E item \in Hits(t, task[t].blk[i]) :
              item[1] = "o" /\ RecordOf(item) = NoVal
         /\ \E j \in i..Len(task[t].blk) : Listed(t, j) # {}

\* C26: an error raised by a lookup during block processing is swallowed:
\* indexBlock goes on with the rest of the block and completes without
\* raising.
C26_LookupErrorSwallowed ==
  \A t \in Tasks : IndexBlockEnded(t) => task[t].ret = "ok"

\* C28: a block's events come in transaction order, one for each transaction
\* with at least one confirmed match and none for the others, and an event
\* lists no id that only an earlier transaction matched.
C28_EventPerTx ==
  \A t \in Tasks : IndexBlockEnded(t) =>
    LET ev == task[t].events
    IN /\ \A a, b \in 1..Len(ev) : a < b => ev[a].txid < ev[b].txid
       /\ \A i \in 1..Len(task[t].blk) :
            (\E n \in 1..Len(ev) : ev[n].txid = i)
              <=> Confirmed(t, task[t].blk[i]) # {}
       /\ \A n \in 1..Len(ev) :
            Range(ev[n].satisfied) \subseteq Confirmed(t, task[t].blk[ev[n].txid])

\* C28 witness: a block of two transactions has been processed; each has a
\* confirmed match and its own event, and the two events list different ids.
C28_Witness ==
  \E t \in Tasks :
    /\ IndexBlockEnded(t)
    /\ Len(task[t].blk) = 2 /\ Len(task[t].events) = 2
    /\ Range(task[t].events[2].satisfied) # Range(task[t].events[1].satisfied)

\* C29: the satisfied list of every event is in ascending order of id.
C29_SatisfiedSorted ==
  \A t \in Tasks : \A n \in 1..Len(task[t].events) :
    LET sat == task[t].events[n].satisfied
    IN \A a, b \in 1..Len(sat) : a < b => sat[a] < sat[b]

\* C30: a persisted Request is never mutated: in every step, a Request row
\* that is in the store before and after the step has the same value,
\* timestamp included; a row goes away only as a whole.
C30_RequestFrozen ==
  [][\A id \in Ids :
       (db[KeyI(id)] # NoVal /\ db'[KeyI(id)] # NoVal)
         => db'[KeyI(id)] = db[KeyI(id)]]_vars

\* the items Relay.watch() is to add: the script of every stored ScriptRecord
\* and the outpoint of every stored OutpointRecord key
Persisted ==
  {ItemS(db[KeyS(sc)].script) : sc \in {x \in Scripts : db[KeyS(x)] # NoVal}}
    \cup {ItemO(op) : op \in {x \in Outpoints : db[KeyO(x)] # NoVal}}

\* C31: immediately after Relay.open() completes, the items of the Filter are
\* exactly the scripts of the stored ScriptRecords and the outpoints of the
\* stored OutpointRecords.
C31_FilterRebuilt ==
  relay = "opened" => filter = Persisted

\* C32: a step of indexBlock or of unindexBlock leaves the store, the batch
\* and the Filter as they are, and the nextout of every stored OutpointRecord
\* is the zero outpoint after it.
C32_BlocksReadOnly ==
  [][\A t \in Tasks :
       (task'[t] # task[t] /\ task'[t].op \in {"indexBlock", "unindexBlock"})
         => /\ db' = db /\ batch' = batch /\ filter' = filter
            /\ \A op \in Outpoints :
                 db'[KeyO(op)] # NoVal => db'[KeyO(op)].nextout = NullOutpoint]_vars

\* C32 witness: an unindexBlock has resolved for a block that spends a watched
\* outpoint, while an indexBlock that has already taken the requests of one
\* record waits for its next lookup, and the OutpointRecord is in the store.
C32_Witness ==
  \E t, u \in Tasks :
    /\ task[t].pc = "done" /\ task[t].op = "unindexBlock"
    /\ \E i \in 1..Len(task[t].blk) : \E j \in 1..Len(task[t].blk[i].ins) :
         /\ GetOutpointRecord(task[t].blk[i].ins[j]) # NoVal
         /\ GetOutpointRecord(task[t].blk[i].ins[j]).requests # <<>>
    /\ task[u].pc = "ib_get" /\ task[u].op = "indexBlock"
    /\ task[u].sat # <<>>

\* a PUT /relay/request has been answered whose pays is over
\* MAX_SCRIPT_SIZE or whose id is missing or not of 32 bytes
AnsweredMalformed(t) ==
  /\ task[t].pc = "done" /\ task[t].op = "httpPut"
  /\ \/ task[t].body.pays = LargeScript
     \/ task[t].body.id \in {NoId, ShortId}

\* C33: a PUT /relay/request whose pays exceeds MAX_SCRIPT_SIZE, or whose id
\* is missing or not of 32 bytes, is answered with a status of the 400 class
\* and the store is as the request found it.
C33_MalformedPutRejected ==
  \A t \in Tasks : AnsweredMalformed(t) =>
    /\ task[t].status \in 400..499
    /\ db = task[t].snap.db

\* C34: a socket joins 'relay' only when it is in 'auth' already; an 'auth'
\* call succeeds only with the API key on a socket not yet in 'auth', and
\* then the socket joins 'auth'; any other 'auth' call (another key, a key
\* that is too long, a socket already in 'auth') is rejected and leaves the
\* socket's channels as they are, so that a socket never authenticated is in
\* neither channel.
C34_AuthBeforeRelay ==
  [][\A s \in Sockets :
       LET a == sockets[s]
           b == sockets'[s]
       IN /\ ("relay" \in b.channels /\ "relay" \notin a.channels)
               => "auth" \in a.channels
          /\ "relay" \in b.channels => "auth" \in b.channels
          /\ <<b.key, b.auth>> # <<a.key, a.auth>>
               => /\ b.auth = "ok" <=> (b.key = "valid" /\ "auth" \notin a.channels)
                  /\ b.channels = IF b.auth = "ok" THEN a.channels \cup {"auth"}
                                                   ELSE a.channels]_vars

\* C34 witness: one socket has authenticated, joined 'relay' and had a second
\* 'auth' with the API key rejected; another has had an over-long key
\* rejected, has then called 'watch relay' and is in no channel.
C34_Witness ==
  \E a, b \in Sockets :
    /\ sockets[a].channels = {"auth", "relay"}
    /\ sockets[a].key = "valid" /\ sockets[a].auth = "rejected"
    /\ sockets[b].key = "long" /\ sockets[b].auth = "rejected"
    /\ sockets[b].last = "watch" /\ sockets[b].channels = {}

\* C35: in every step of indexBlock, (1) an event is emitted only by a run
\* that resumes from a lookup, for the transaction of that lookup, and lists
\* only ids held in satisfied or read by the lookup, (2) satisfied gains only
\* ids read by the lookup, and (3) a lookup is issued only for an input or
\* output of the current transaction that the predicate in force holds for,
\* and reads the record stored under that item's key.  So every id listed
\* for a transaction was read from a stored record of one of its items that
\* passed the predicate, and a transaction without such an item has no event.
C35_SoundEvents ==
  [][\A t \in Tasks :
       (task'[t] # task[t] /\ task'[t].op = "indexBlock") =>
         LET a == task[t]
             b == task'[t]
             held == IF a.pc = "ib_get" THEN Range(a.sat) ELSE {}
             read == IF a.pc = "ib_get" /\ a.rec # NoVal
                       THEN Range(a.rec.requests) ELSE {}
         IN /\ \A n \in 1..Len(NewEvents(t)) :
                 /\ a.pc = "ib_get"
                 /\ NewEvents(t)[n].txid = a.ti
                 /\ Range(NewEvents(t)[n].satisfied) \subseteq held \cup read
            /\ Range(b.sat) \subseteq held \cup read
            /\ b.pc = "ib_get" =>
                 LET item == ItemAt(b.blk[b.ti], b.k)
                 IN /\ item \in TxItems(b.blk[b.ti])
                    /\ Has(b.has, item)
                    /\ b.rec = RecordOf(item)]_vars

\* C35 witness: a block has been processed with one event that lists an id of
\* the OutpointRecord of an input and another id of the ScriptRecord of an
\* output of its transaction.
C35_Witness ==
  \E t \in Tasks :
    /\ IndexBlockEnded(t)
    /\ \E n \in 1..Len(task[t].events) :
         LET e == task[t].events[n]
             tx == task[t].blk[e.txid]
         IN \E i \in 1..Len(tx.ins), j \in 1..Len(tx.outs) :
              \E x, y \in Range(e.satisfied) :
                /\ x # y
                /\ RecordOf(ItemO(tx.ins[i])) # NoVal
                /\ x \in Range(RecordOf(ItemO(tx.ins[i])).requests)
                /\ RecordOf(ItemS(tx.outs[j])) # NoVal
                /\ y \in Range(RecordOf(ItemS(tx.outs[j])).requests)

\* C36: every id in the requests of a stored ScriptRecord or OutpointRecord
\* is the id of a stored Request whose pays hashes to (whose spends is) the
\* key of that record.
C36_ReverseIndexIntegrity ==
  /\ \A sc \in Scripts :
       db[KeyS(sc)] # NoVal =>
         \A id \in Range(db[KeyS(sc)].requests) :
           /\ KeyI(id) \in Keys
           /\ db[KeyI(id)] # NoVal
           /\ Sha256(db[KeyI(id)].pays) = sc
  /\ \A op \in Outpoints :
       db[KeyO(op)] # NoVal =>
         \A id \in Range(db[KeyO(op)].requests) :
           /\ KeyI(id) \in Keys
           /\ db[KeyI(id)] # NoVal
           /\ db[KeyI(id)].spends = op

\* Request id is stored as a successful addRequest call wrote it
StoredByAdd(id) ==
  /\ db[KeyI(id)] # NoVal
  /\ \E c \in calls :
       /\ c.ok /\ c.id = id
       /\ c.spends = db[KeyI(id)].spends /\ c.pays = db[KeyI(id)].pays

\* C37: with addRequest the only writer (nothing is deleted or wiped), every
\* Request stored by a successful addRequest is listed by the OutpointRecord
\* stored at its spends and by the ScriptRecord stored at the hash of its
\* pays, whatever other addRequest calls do to those records.
C37_ForwardIndexComplete ==
  \A id \in Ids : StoredByAdd(id) => RowIndexed(id)

\* C38: when two addRequest calls for distinct ids and the same pays (the
\* same spends) have both succeeded, in whatever way they interleaved, the
\* record stored for that script (that outpoint) lists both ids.
C38_NoLostUpdate ==
  \A c, d \in calls :
    (c.ok /\ d.ok /\ c.id # d.id) =>
      /\ (c.pays # EmptyScript /\ c.pays = d.pays) =>
           /\ db[KeyS(c.pays)] # NoVal
           /\ {c.id, d.id} \subseteq Range(db[KeyS(c.pays)].requests)
      /\ (c.spends # NullOutpoint /\ c.spends = d.spends) =>
           /\ db[KeyO(c.spends)] # NoVal
           /\ {c.id, d.id} \subseteq Range(db[KeyO(c.spends)].requests)

\* the keys an addRequest call for Request r writes
OwnKeys(r) ==
  {KeyI(r.id)}
    \cup (IF r.spends # NullOutpoint THEN {KeyO(r.spends)} ELSE {})
    \cup (IF r.pays # EmptyScript THEN {KeyS(r.pays)} ELSE {})

\* C39: a step of an addRequest call changes the store only at the keys that
\* call writes, and a call that found a batch open when it was made leaves
\* the open batch as it is in each of its steps: it neither adds its writes
\* to another operation's batch nor commits it.
C39_CommitOwnWrites ==
  [][\A t \in Tasks :
       (task'[t] # task[t] /\ task'[t].op = "addRequest") =>
         /\ \A k \in Keys : db'[k] # db[k] => k \in OwnKeys(task'[t].req)
         /\ (task'[t].snap.batch.open /\ batch.open) => batch' = batch]_vars

\* C40: the steps of wipe() leave the Filter and the indexer's batch as they
\* are; its write deletes, in the one step, every key under 's', 'o' and 'i'
\* and leaves every other key of the store with its value, and its other
\* steps leave the store unchanged.
C40_WipeFrame ==
  [][\A t \in Tasks :
       (task'[t] # task[t] /\ task'[t].op = "wipe") =>
         /\ filter' = filter
         /\ batch' = batch
         /\ db' = IF task'[t].pc = "done"
                    THEN [k \in Keys |->
                            IF k[1] \in {"s", "o", "i"} THEN NoVal ELSE db[k]]
                    ELSE db]_vars

\* C40 witness: a wipe has completed that found a Request row, an
\* OutpointRecord and a ScriptRecord; they are gone and the db version is
\* still in the store.
C40_Witness ==
  \E t \in Tasks :
    /\ task[t].pc = "done" /\ task[t].op = "wipe"
    /\ \A p \in {"s", "o", "i"} : \E k \in task[t].keys : k[1] = p
    /\ \A k \in Keys : k # KeyV => db[k] = NoVal
    /\ db[KeyV] = Version

====
